---- MODULE Spec2Model ----
(***************************************************************************)
(* Model of bsm/pool (src/pool.go): a lock-free, stack-ordered pool of     *)
(* net.Conn values.  Every atomic operation of the code (a load, a         *)
(* compare-and-swap, an add) is one step of the calling goroutine, so the  *)
(* states between a successful CAS on head and the matching add on avail   *)
(* are states of the model.                                                *)
(*                                                                         *)
(* Pointers are natural numbers, 0 is nil.  A poolMember is an index into  *)
(* the sequences next and conn; every &poolMember{} is a fresh index (Go   *)
(* never reuses the address of an object that is still referenced).  A     *)
(* connection is an index into closeCount, which counts the calls of       *)
(* Close() the pool made on it.  Errors are integers: 0 is nil, ErrDial is *)
(* the factory's error, r > 0 is the error of closing connection r.        *)
(***************************************************************************)
EXTENDS Integers, Sequences, FiniteSets, TLC

\* ------------------------------------------------------------------ bounds
MaxRes == 2
MaxMembers == 2
MaxResSeq == 3
MaxMembersSeq == 4
MaxClock == 2

\* ------------------------------------------------------- program constants
DefaultMaxCap == 10
ErrDial == 0 - 1

\* Options handed to New: <<InitialSize, MaxCap>> or <<InitialSize, MaxCap,
\* IdleTimeout>>; a field left out has Go's zero value
Configs == { <<0, 1>>, <<1, 2>> }
SeqConfigs == { <<0, 0>>, <<0, 1>>, <<1, 3>>, <<2, 1>> }
ReapConfigs == { <<1, 2, 1>>, <<2, 2, 1>> }
FairConfigs == { <<0, 2>>, <<1, 2>> }

\* TestPool: the options it passes to New, and the connections it checks out
TestConfig == <<3, 5>>
TestGets == 6

VARIABLES
    phase,      \* "new": inside New; "open": New returned a pool; "failed": New returned an error
    opt,        \* Pool.opt, the normalised options
    i,          \* loop counter of New
    newErr,     \* the error New returned, 0 for nil
    head,       \* Pool.head
    next,       \* poolMember.next, by member
    conn,       \* poolMember.Conn, by member
    avail,      \* Pool.avail
    closed,     \* Pool.closed
    dying,      \* number of close(s.dying) executed
    dead,       \* TRUE once close(s.dead) was executed
    loopPc,     \* position of the goroutine running Pool.loop
    closeCount, \* by connection: number of Close() calls made by the pool
    op,         \* by caller: the operation in flight, or the last one
    pc,         \* by caller: position inside the operation
    cn,         \* by caller: local cn
    m,          \* by caller: local m of Put
    h,          \* by caller: local head of pop
    err,        \* by caller: local err of Pool.close
    ret,        \* by caller: result of the last operation
    held,       \* by caller: connections the caller has checked out
    fcalls,     \* by caller: factory calls made by the operation in flight
    closedAtCall, \* by caller: Pool.closed when the operation in flight was called
    popped,     \* by member: number of pops whose CAS took the member
    pushed,     \* connections accepted by consecutive Puts
    gets,       \* Get calls returned since the last accepted Put
    lastAccess, \* poolMember.lastAccess, by member
    now,        \* the clock time.Now() reads
    drainFrom,  \* the connections in the free-list when the drain of Close began
    drained,    \* the calls of cn.Close() the drain made: connection and result
    raced       \* by caller: a CAS of another call on head succeeded since this
                \* call's read of head

vars == << phase, opt, i, newErr, head, next, conn, avail, closed, dying, dead, loopPc,
           closeCount, op, pc, cn, m, h, err, ret, held, fcalls, closedAtCall,
           popped, pushed, gets, lastAccess, now, drainFrom, drained,
           raced >>

poolVars == << head, next, conn, avail, closed, popped, lastAccess >>
loopVars == << dying, dead, loopPc >>
newVars == << phase, opt, i, newErr >>
histVars == << pushed, gets >>
drainVars == << drainFrom, drained >>

\* the goroutines calling Get, Put and Close
Procs == { 1, 2 }
SeqProcs == { 1 }
Callers == DOMAIN pc

NoRet == [val |-> 0, err |-> 0]

\* ---------------------------------------------------------------- helpers
\* Options.norm
norm(o) ==
    LET mc == IF o[2] <= 0 THEN DefaultMaxCap ELSE o[2]
    IN  [InitialSize |-> o[1], MaxCap |-> IF mc < o[1] THEN o[1] ELSE mc,
         IdleTimeout |-> IF Len(o) > 2 THEN o[3] ELSE 0]

RECURSIVE ChainFrom(_, _)
ChainFrom(x, fuel) ==
    IF x = 0 \/ fuel = 0 THEN << >>
    ELSE << x >> \o ChainFrom(next[x], fuel - 1)

\* the members reachable from head, top first
Chain == ChainFrom(head, Len(next) + 1)
ChainConns == [k \in 1 .. Len(Chain) |-> conn[Chain[k]]]

SeqSet(s) == { s[k] : k \in 1 .. Len(s) }

\* Pool.Len
PoolLen == avail

\* Put that does not look at the closed flag
PutRejectsFull(len, cl) == len >= opt.MaxCap

\* Put comparing with > instead of >=
PutRejectsAbove(len, cl) == len > opt.MaxCap \/ cl = 1

\* the condition of Put's if statement, on the two values it loads
PutRejects(len, cl) == len >= opt.MaxCap \/ cl = 1

\* pop unlinking two members at once
PopNextSkip(x) == IF next[x] = 0 THEN 0 ELSE next[next[x]]

\* the new head pop's CAS installs: (*poolMember)(head).next
PopNext(x) == next[x]

\* the outcomes of net.Conn.Close on connection r
CloseResults(r) == { 0, r }

\* Go's garbage collector: a popped member that no pop still refers to is
\* unreachable, and its fields f are gone
Collect(f, k, p) ==
    IF popped[k] > 0 /\ \A q \in Callers \ { p } : h[q] # k
    THEN [f EXCEPT ![k] = 0]
    ELSE f

\* a CAS of p on head has succeeded: the calls that have read head and not
\* yet made their own CAS now hold a value another call has replaced
Racing(p) ==
    [q \in Callers |-> IF q = p THEN raced[p] ELSE pc[q] \in { "pop_cas", "put_cas" }]

Bump(f, k) == [f EXCEPT ![k] = @ + 1]

RECURSIVE BumpAll(_, _)
BumpAll(f, s) ==
    IF s = << >> THEN f ELSE BumpAll(Bump(f, Head(s)), Tail(s))

Return(p, v, e) ==
    /\ pc' = [pc EXCEPT ![p] = "idle"]
    /\ ret' = [ret EXCEPT ![p] = [val |-> v, err |-> e]]
    /\ cn' = [cn EXCEPT ![p] = 0]
    /\ m' = [m EXCEPT ![p] = 0]
    /\ h' = [h EXCEPT ![p] = 0]
    /\ err' = [err EXCEPT ![p] = 0]

\* pushed and gets record the calls of an execution with one caller; calls
\* of several callers overlap, and there is no order of calls to record
Sequential == Cardinality(Callers) = 1

RecordPut(r) ==
    IF Sequential
    THEN /\ pushed' = IF gets > 0 THEN << r >> ELSE Append(pushed, r)
         /\ gets' = 0
    ELSE UNCHANGED histVars

RecordGet ==
    IF Sequential
    THEN /\ gets' = IF gets < Len(pushed) THEN gets + 1 ELSE gets
         /\ UNCHANGED pushed
    ELSE UNCHANGED histVars

RecordDrain ==
    IF Sequential
    THEN pushed' = << >> /\ gets' = 0
    ELSE UNCHANGED histVars

\* ------------------------------------------------------------------- Init
InitWith(cfgs, procs) ==
    /\ phase = "new"
    /\ \E c \in cfgs : opt = norm(c)
    /\ i = 0
    /\ newErr = 0
    /\ head = 0
    /\ next = << >>
    /\ conn = << >>
    /\ avail = 0
    /\ closed = 0
    /\ dying = 0
    /\ dead = FALSE
    /\ loopPc = "none"
    /\ closeCount = << >>
    /\ op = [p \in procs |-> "none"]
    /\ pc = [p \in procs |-> "idle"]
    /\ cn = [p \in procs |-> 0]
    /\ m = [p \in procs |-> 0]
    /\ h = [p \in procs |-> 0]
    /\ err = [p \in procs |-> 0]
    /\ ret = [p \in procs |-> NoRet]
    /\ held = [p \in procs |-> {}]
    /\ fcalls = [p \in procs |-> 0]
    /\ closedAtCall = [p \in procs |-> 0]
    /\ popped = << >>
    /\ pushed = << >>
    /\ gets = 0
    /\ lastAccess = << >>
    /\ now = 0
    /\ drainFrom = << >>
    /\ drained = << >>
    /\ raced = [p \in procs |-> FALSE]

Init == InitWith(Configs, Procs)
InitSeq == InitWith(SeqConfigs, SeqProcs)
InitTest == InitWith({ TestConfig }, SeqProcs)
InitReap == InitWith(ReapConfigs, SeqProcs)
InitFair == InitWith(FairConfigs, Procs)

\* -------------------------------------------------------------------- New
\* Put as New runs it: no other goroutine has the pool yet, so the whole
\* call is one step
PutAlone(r) ==
    IF PutRejects(PoolLen, closed)
    THEN /\ closeCount' = Bump(Append(closeCount, 0), r)
         /\ UNCHANGED poolVars
         /\ UNCHANGED histVars
    ELSE /\ closeCount' = Append(closeCount, 0)
         /\ next' = Append(next, head)
         /\ conn' = Append(conn, r)
         /\ popped' = Append(popped, 0)
         /\ lastAccess' = Append(lastAccess, now)
         /\ head' = Len(next) + 1
         /\ avail' = avail + 1
         /\ UNCHANGED closed
         /\ RecordPut(r)

\* one iteration of New's loop whose factory call succeeds
NewCreate(maxRes) ==
    /\ phase = "new"
    /\ i < opt.InitialSize
    /\ Len(closeCount) < maxRes
    /\ PutAlone(Len(closeCount) + 1)
    /\ i' = i + 1
    /\ UNCHANGED << phase, opt, newErr, loopVars, op, pc, cn, m, h, err, ret, held, fcalls, closedAtCall, now, drainVars, raced >>

\* New returning the factory's error without draining the pool
NewFailLeaks ==
    /\ phase = "new"
    /\ i < opt.InitialSize
    /\ phase' = "failed"
    /\ newErr' = ErrDial
    /\ UNCHANGED << histVars, opt, i, poolVars, loopVars, closeCount, op, pc, cn, m, h,
                    err, ret, held, fcalls, closedAtCall, now, drainVars, raced >>

\* the iteration whose factory call fails: p.close() drains, New returns the error
NewFail ==
    /\ phase = "new"
    /\ i < opt.InitialSize
    /\ phase' = "failed"
    /\ newErr' = ErrDial
    /\ closeCount' = BumpAll(closeCount, ChainConns)
    /\ popped' = BumpAll(popped, Chain)
    /\ head' = 0
    /\ avail' = avail - Len(Chain)
    /\ RecordDrain
    /\ next' = [k \in DOMAIN next |-> 0]
    /\ conn' = [k \in DOMAIN conn |-> 0]
    /\ lastAccess' = [k \in DOMAIN lastAccess |-> 0]
    /\ UNCHANGED << opt, i, closed, loopVars, op, pc, cn, m, h, err, ret, held,
                    fcalls, closedAtCall, now, drainVars, raced >>

\* the loop is over: go p.loop(); return p, nil
NewDone ==
    /\ phase = "new"
    /\ i >= opt.InitialSize
    /\ phase' = "open"
    /\ loopPc' = "select"
    /\ UNCHANGED << histVars, opt, i, newErr, poolVars, dying, dead, closeCount, op, pc,
                    cn, m, h, err, ret, held, fcalls, closedAtCall, now, drainVars, raced >>

\* -------------------------------------------------------------------- pop
\* head := atomic.LoadPointer(&s.head); if head == nil { return nil }
PopLoad(p) ==
    /\ pc[p] = "pop_load"
    /\ IF head = 0
       THEN IF op[p] = "Get"
            THEN /\ pc' = [pc EXCEPT ![p] = "get_factory"]
                 /\ UNCHANGED << h, ret, cn, m, err >>
            ELSE Return(p, 0, err[p])
       ELSE /\ h' = [h EXCEPT ![p] = head]
            /\ pc' = [pc EXCEPT ![p] = "pop_cas"]
            /\ UNCHANGED << ret, cn, m, err >>
    /\ UNCHANGED << histVars, newVars, poolVars, loopVars, closeCount, op, held, fcalls, closedAtCall, now, drainVars >>
    /\ raced' = [raced EXCEPT ![p] = FALSE]

\* a compare-and-swap that may fail although head holds the value read
PopCASWeak(p) ==
    /\ pc[p] = "pop_cas"
    /\ \/ /\ head = h[p]
          /\ head' = PopNext(h[p])
          /\ popped' = Bump(popped, h[p])
          /\ pc' = [pc EXCEPT ![p] = "pop_add"]
          /\ raced' = Racing(p)
          /\ UNCHANGED h
          /\ UNCHANGED << next, conn, lastAccess >>
       \/ /\ pc' = [pc EXCEPT ![p] = "pop_load"]
          /\ raced' = [raced EXCEPT ![p] = FALSE]
          /\ h' = [h EXCEPT ![p] = 0]
          /\ next' = Collect(next, h[p], p)
          /\ conn' = Collect(conn, h[p], p)
          /\ lastAccess' = Collect(lastAccess, h[p], p)
          /\ UNCHANGED << head, popped >>
    /\ UNCHANGED << histVars, newVars, avail, closed, loopVars, closeCount, op,
                    cn, m, err, ret, held, fcalls, closedAtCall, now, drainVars >>

\* atomic.CompareAndSwapPointer(&s.head, head, (*poolMember)(head).next)
PopCAS(p) ==
    /\ pc[p] = "pop_cas"
    /\ IF head = h[p]
       THEN /\ head' = PopNext(h[p])
            /\ popped' = Bump(popped, h[p])
            /\ pc' = [pc EXCEPT ![p] = "pop_add"]
            /\ raced' = Racing(p)
            /\ UNCHANGED h
            /\ UNCHANGED << next, conn, lastAccess >>
       ELSE /\ pc' = [pc EXCEPT ![p] = "pop_load"]
            /\ raced' = [raced EXCEPT ![p] = FALSE]
            /\ h' = [h EXCEPT ![p] = 0]
            /\ next' = Collect(next, h[p], p)
            /\ conn' = Collect(conn, h[p], p)
            /\ lastAccess' = Collect(lastAccess, h[p], p)
            /\ UNCHANGED << head, popped >>
    /\ UNCHANGED << histVars, newVars, avail, closed, loopVars, closeCount, op,
                    cn, m, err, ret, held, fcalls, closedAtCall, now, drainVars >>

\* pop returning the connection without counting the member it took
PopAddForgets(p) ==
    /\ pc[p] = "pop_add"
    /\ next' = Collect(next, h[p], p)
    /\ conn' = Collect(conn, h[p], p)
    /\ lastAccess' = Collect(lastAccess, h[p], p)
    /\ IF op[p] = "Get"
       THEN /\ Return(p, conn[h[p]], 0)
            /\ held' = [held EXCEPT ![p] = @ \cup { conn[h[p]] }]
            /\ RecordGet
       ELSE /\ cn' = [cn EXCEPT ![p] = conn[h[p]]]
            /\ h' = [h EXCEPT ![p] = 0]
            /\ pc' = [pc EXCEPT ![p] = "close_conn"]
            /\ RecordDrain
            /\ UNCHANGED << m, err, ret, held >>
    /\ UNCHANGED << newVars, head, avail, closed, popped, loopVars, closeCount, op,
                    fcalls, closedAtCall, now, drainVars >>
    /\ raced' = [raced EXCEPT ![p] = FALSE]

\* atomic.AddInt32(&s.avail, -1); return (*poolMember)(head).Conn
PopAdd(p) ==
    /\ pc[p] = "pop_add"
    /\ avail' = avail - 1
    /\ next' = Collect(next, h[p], p)
    /\ conn' = Collect(conn, h[p], p)
    /\ lastAccess' = Collect(lastAccess, h[p], p)
    /\ IF op[p] = "Get"
       THEN /\ Return(p, conn[h[p]], 0)
            /\ held' = [held EXCEPT ![p] = @ \cup { conn[h[p]] }]
            /\ RecordGet
       ELSE /\ cn' = [cn EXCEPT ![p] = conn[h[p]]]
            /\ h' = [h EXCEPT ![p] = 0]
            /\ pc' = [pc EXCEPT ![p] = "close_conn"]
            /\ RecordDrain
            /\ UNCHANGED << m, err, ret, held >>
    /\ UNCHANGED << newVars, head, closed, popped, loopVars, closeCount, op,
                    fcalls, closedAtCall, now, drainVars >>
    /\ raced' = [raced EXCEPT ![p] = FALSE]

\* -------------------------------------------------------------------- Get
GetCall(p) ==
    /\ phase = "open"
    /\ pc[p] = "idle"
    /\ op' = [op EXCEPT ![p] = "Get"]
    /\ pc' = [pc EXCEPT ![p] = "pop_load"]
    /\ fcalls' = [fcalls EXCEPT ![p] = 0]
    /\ closedAtCall' = [closedAtCall EXCEPT ![p] = closed]
    /\ ret' = [ret EXCEPT ![p] = NoRet]
    /\ UNCHANGED << histVars, newVars, poolVars, loopVars, closeCount, cn, m, h, err, held, now, drainVars, raced >>

\* Get dropping the factory's error
GetFactoryNoError(p, maxRes) ==
    /\ pc[p] = "get_factory"
    /\ fcalls' = [fcalls EXCEPT ![p] = @ + 1]
    /\ RecordGet
    /\ \/ /\ Len(closeCount) < maxRes
          /\ closeCount' = Append(closeCount, 0)
          /\ held' = [held EXCEPT ![p] = @ \cup { Len(closeCount) + 1 }]
          /\ Return(p, Len(closeCount) + 1, 0)
       \/ /\ Return(p, 0, 0)
          /\ UNCHANGED << closeCount, held >>
    /\ UNCHANGED << newVars, poolVars, loopVars, op, closedAtCall, now, drainVars, raced >>

\* return s.factory(): a new connection, or the factory's error
GetFactory(p, maxRes) ==
    /\ pc[p] = "get_factory"
    /\ fcalls' = [fcalls EXCEPT ![p] = @ + 1]
    /\ RecordGet
    /\ \/ /\ Len(closeCount) < maxRes
          /\ closeCount' = Append(closeCount, 0)
          /\ held' = [held EXCEPT ![p] = @ \cup { Len(closeCount) + 1 }]
          /\ Return(p, Len(closeCount) + 1, 0)
       \/ /\ Return(p, 0, ErrDial)
          /\ UNCHANGED << closeCount, held >>
    /\ UNCHANGED << newVars, poolVars, loopVars, op, closedAtCall, now, drainVars, raced >>

\* -------------------------------------------------------------------- Put
\* the Put calls that have not yet allocated their poolMember
PutsBeforeAlloc == { q \in Callers : pc[q] \in { "put_len", "put_closed" } }

PutCall(p, r, maxMem) ==
    /\ phase = "open"
    /\ pc[p] = "idle"
    /\ r \in held[p]
    /\ Len(next) + Cardinality(PutsBeforeAlloc) < maxMem
    /\ op' = [op EXCEPT ![p] = "Put"]
    /\ pc' = [pc EXCEPT ![p] = "put_len"]
    /\ cn' = [cn EXCEPT ![p] = r]
    /\ held' = [held EXCEPT ![p] = @ \ { r }]
    /\ fcalls' = [fcalls EXCEPT ![p] = 0]
    /\ closedAtCall' = [closedAtCall EXCEPT ![p] = closed]
    /\ ret' = [ret EXCEPT ![p] = NoRet]
    /\ UNCHANGED << histVars, newVars, poolVars, loopVars, closeCount, m, h, err, now, drainVars, raced >>

\* s.Len() >= s.opt.MaxCap, the left operand of ||
PutLen(p) ==
    /\ pc[p] = "put_len"
    /\ pc' = [pc EXCEPT ![p] = IF PutRejects(PoolLen, 0) THEN "put_reject" ELSE "put_closed"]
    /\ UNCHANGED << histVars, newVars, poolVars, loopVars, closeCount, op, cn, m, h, err,
                    ret, held, fcalls, closedAtCall, now, drainVars, raced >>

\* a popped member that no call refers to any more
Unreferenced == { k \in DOMAIN next : popped[k] > 0 /\ \A q \in Callers : h[q] # k }

\* Put taking its poolMember from the popped ones when there is one
PutClosedReuses(p) ==
    /\ pc[p] = "put_closed"
    /\ IF PutRejects(0 - 1, closed)
       THEN /\ pc' = [pc EXCEPT ![p] = "put_reject"]
            /\ UNCHANGED << next, conn, popped, lastAccess, m >>
       ELSE IF Unreferenced # {}
       THEN LET k == CHOOSE x \in Unreferenced : \A y \in Unreferenced : x <= y
            IN  /\ next' = [next EXCEPT ![k] = 0]
                /\ conn' = [conn EXCEPT ![k] = cn[p]]
                /\ lastAccess' = [lastAccess EXCEPT ![k] = now]
                /\ m' = [m EXCEPT ![p] = k]
                /\ pc' = [pc EXCEPT ![p] = "put_load"]
                /\ UNCHANGED popped
       ELSE /\ next' = Append(next, 0)
            /\ conn' = Append(conn, cn[p])
            /\ popped' = Append(popped, 0)
            /\ lastAccess' = Append(lastAccess, now)
            /\ m' = [m EXCEPT ![p] = Len(next) + 1]
            /\ pc' = [pc EXCEPT ![p] = "put_load"]
    /\ UNCHANGED << histVars, newVars, head, avail, closed, loopVars, closeCount, op, cn, h,
                    err, ret, held, fcalls, closedAtCall, now, drainVars, raced >>

\* atomic.LoadInt32(&s.closed) == 1, the right operand; then m := &poolMember{...}
PutClosed(p) ==
    /\ pc[p] = "put_closed"
    /\ IF PutRejects(0 - 1, closed)
       THEN /\ pc' = [pc EXCEPT ![p] = "put_reject"]
            /\ UNCHANGED << next, conn, popped, lastAccess, m >>
       ELSE /\ next' = Append(next, 0)
            /\ conn' = Append(conn, cn[p])
            /\ popped' = Append(popped, 0)
            /\ lastAccess' = Append(lastAccess, now)
            /\ m' = [m EXCEPT ![p] = Len(next) + 1]
            /\ pc' = [pc EXCEPT ![p] = "put_load"]
    /\ UNCHANGED << histVars, newVars, head, avail, closed, loopVars, closeCount, op, cn, h,
                    err, ret, held, fcalls, closedAtCall, now, drainVars, raced >>

\* the rejecting branch without its return: the closed connection is pushed
PutRejectFallsThrough(p) ==
    /\ pc[p] = "put_reject"
    /\ closeCount' = Bump(closeCount, cn[p])
    /\ next' = Append(next, 0)
    /\ conn' = Append(conn, cn[p])
    /\ popped' = Append(popped, 0)
    /\ lastAccess' = Append(lastAccess, now)
    /\ m' = [m EXCEPT ![p] = Len(next) + 1]
    /\ pc' = [pc EXCEPT ![p] = "put_load"]
    /\ UNCHANGED << histVars, newVars, head, avail, closed, loopVars, op, cn, h,
                    err, ret, held, fcalls, closedAtCall, now, drainVars, raced >>

\* _ = cn.Close(); return false
PutReject(p) ==
    /\ pc[p] = "put_reject"
    /\ closeCount' = Bump(closeCount, cn[p])
    /\ Return(p, 0, 0)
    /\ UNCHANGED << histVars, newVars, poolVars, loopVars, op, held, fcalls, closedAtCall, now, drainVars, raced >>

\* m.next = atomic.LoadPointer(&s.head)
PutLoad(p) ==
    /\ pc[p] = "put_load"
    /\ next' = [next EXCEPT ![m[p]] = head]
    /\ pc' = [pc EXCEPT ![p] = "put_cas"]
    /\ UNCHANGED << histVars, newVars, head, conn, avail, closed, popped, lastAccess, loopVars,
                    closeCount, op, cn, m, h, err, ret, held, fcalls, closedAtCall, now, drainVars >>
    /\ raced' = [raced EXCEPT ![p] = FALSE]

\* a plain store of head in place of the compare-and-swap
PutStore(p) ==
    /\ pc[p] = "put_cas"
    /\ head' = m[p]
    /\ pc' = [pc EXCEPT ![p] = "put_add"]
    /\ raced' = Racing(p)
    /\ UNCHANGED << histVars, newVars, next, conn, avail, closed, popped, lastAccess, loopVars,
                    closeCount, op, cn, m, h, err, ret, held, fcalls, closedAtCall, now, drainVars >>

\* atomic.CompareAndSwapPointer(&s.head, m.next, unsafe.Pointer(m))
PutCAS(p) ==
    /\ pc[p] = "put_cas"
    /\ IF head = next[m[p]]
       THEN /\ head' = m[p]
            /\ pc' = [pc EXCEPT ![p] = "put_add"]
            /\ raced' = Racing(p)
       ELSE /\ pc' = [pc EXCEPT ![p] = "put_load"]
            /\ raced' = [raced EXCEPT ![p] = FALSE]
            /\ UNCHANGED head
    /\ UNCHANGED << histVars, newVars, next, conn, avail, closed, popped, lastAccess, loopVars,
                    closeCount, op, cn, m, h, err, ret, held, fcalls, closedAtCall, now, drainVars >>

\* Put returning true without counting the member it pushed
PutAddForgets(p) ==
    /\ pc[p] = "put_add"
    /\ RecordPut(cn[p])
    /\ Return(p, 1, 0)
    /\ UNCHANGED << newVars, poolVars, loopVars, closeCount, op, held, fcalls,
                    closedAtCall, now, drainVars >>
    /\ raced' = [raced EXCEPT ![p] = FALSE]

\* atomic.AddInt32(&s.avail, 1); return true
PutAdd(p) ==
    /\ pc[p] = "put_add"
    /\ avail' = avail + 1
    /\ RecordPut(cn[p])
    /\ Return(p, 1, 0)
    /\ UNCHANGED << newVars, head, next, conn, closed, popped, lastAccess, loopVars,
                    closeCount, op, held, fcalls, closedAtCall, now, drainVars >>
    /\ raced' = [raced EXCEPT ![p] = FALSE]

\* ------------------------------------------------------------------ Close
CloseCall(p) ==
    /\ phase = "open"
    /\ pc[p] = "idle"
    /\ op' = [op EXCEPT ![p] = "Close"]
    /\ pc' = [pc EXCEPT ![p] = "close_cas"]
    /\ fcalls' = [fcalls EXCEPT ![p] = 0]
    /\ closedAtCall' = [closedAtCall EXCEPT ![p] = closed]
    /\ ret' = [ret EXCEPT ![p] = NoRet]
    /\ UNCHANGED << histVars, newVars, poolVars, loopVars, closeCount, cn, m, h, err, held, now, drainVars, raced >>

\* Close without the guard of the closed flag
CloseStore(p) ==
    /\ pc[p] = "close_cas"
    /\ closed' = 1
    /\ pc' = [pc EXCEPT ![p] = "close_dying"]
    /\ UNCHANGED << histVars, newVars, head, next, conn, avail, popped, lastAccess, loopVars,
                    closeCount, op, cn, m, h, err, ret, held, fcalls, closedAtCall, now, drainVars, raced >>

\* if !atomic.CompareAndSwapInt32(&s.closed, 0, 1) { return nil }
CloseCAS(p) ==
    /\ pc[p] = "close_cas"
    /\ IF closed = 0
       THEN /\ closed' = 1
            /\ pc' = [pc EXCEPT ![p] = "close_dying"]
            /\ UNCHANGED << ret, cn, m, h, err >>
       ELSE /\ Return(p, 0, 0)
            /\ UNCHANGED closed
    /\ UNCHANGED << histVars, newVars, head, next, conn, avail, popped, lastAccess, loopVars,
                    closeCount, op, held, fcalls, closedAtCall, now, drainVars, raced >>

\* close(s.dying)
CloseDying(p) ==
    /\ pc[p] = "close_dying"
    /\ dying' = dying + 1
    /\ pc' = [pc EXCEPT ![p] = "close_wait"]
    /\ UNCHANGED << histVars, newVars, poolVars, dead, loopPc, closeCount, op, cn, m, h,
                    err, ret, held, fcalls, closedAtCall, now, drainVars, raced >>

\* Close going on to the drain without receiving from s.dead
CloseWaitSkips(p) ==
    /\ pc[p] = "close_wait"
    /\ pc' = [pc EXCEPT ![p] = "pop_load"]
    /\ UNCHANGED << histVars, newVars, poolVars, loopVars, closeCount, op, cn, m, h, err,
                    ret, held, fcalls, closedAtCall, now, drainVars, raced >>

\* <-s.dead; return s.close()
CloseWait(p) ==
    /\ pc[p] = "close_wait"
    /\ dead
    /\ pc' = [pc EXCEPT ![p] = "pop_load"]
    /\ drainFrom' = IF Sequential THEN ChainConns ELSE drainFrom
    /\ UNCHANGED << histVars, newVars, poolVars, loopVars, closeCount, op, cn, m, h, err,
                    ret, held, fcalls, closedAtCall, now, drained, raced >>

\* the drain recording one call of cn.Close() and its result
RecordClose(r, e) ==
    /\ drained' = IF Sequential THEN Append(drained, [conn |-> r, err |-> e]) ELSE drained
    /\ UNCHANGED drainFrom

\* Pool.close keeping the first error of the drain
CloseConnFirst(p) ==
    /\ pc[p] = "close_conn"
    /\ closeCount' = Bump(closeCount, cn[p])
    /\ \E e \in CloseResults(cn[p]) :
          /\ err' = [err EXCEPT ![p] = IF e # 0 /\ @ = 0 THEN e ELSE @]
          /\ RecordClose(cn[p], e)
    /\ cn' = [cn EXCEPT ![p] = 0]
    /\ pc' = [pc EXCEPT ![p] = "pop_load"]
    /\ UNCHANGED << histVars, newVars, poolVars, loopVars, op, m, h, ret, held, fcalls,
                    closedAtCall, now, raced >>

\* Pool.close: if e := cn.Close(); e != nil { err = e }
CloseConn(p) ==
    /\ pc[p] = "close_conn"
    /\ closeCount' = Bump(closeCount, cn[p])
    /\ \E e \in CloseResults(cn[p]) :
          /\ err' = [err EXCEPT ![p] = IF e # 0 THEN e ELSE @]
          /\ RecordClose(cn[p], e)
    /\ cn' = [cn EXCEPT ![p] = 0]
    /\ pc' = [pc EXCEPT ![p] = "pop_load"]
    /\ UNCHANGED << histVars, newVars, poolVars, loopVars, op, m, h, ret, held, fcalls,
                    closedAtCall, now, raced >>

\* ------------------------------------------------------------------- loop
\* case <-ticker.C:
LoopTick ==
    /\ loopPc = "select"
    /\ loopPc' = "reap"
    /\ UNCHANGED << histVars, newVars, poolVars, dying, dead, closeCount, op, pc, cn, m, h,
                    err, ret, held, fcalls, closedAtCall, now, drainVars, raced >>

\* Pool.reap: timeout := s.opt.IdleTimeout; if timeout <= 0 { return }; and
\* the function ends there: for no value of IdleTimeout does it touch the pool
reap ==
    /\ loopPc = "reap"
    /\ loopPc' = "select"
    /\ UNCHANGED << histVars, newVars, poolVars, dying, dead, closeCount, op, pc, cn, m, h,
                    err, ret, held, fcalls, closedAtCall, now, drainVars, raced >>

\* the loop returning on dying without closing dead
LoopDyingSilent ==
    /\ loopPc = "select"
    /\ dying > 0
    /\ loopPc' = "exited"
    /\ UNCHANGED << histVars, newVars, poolVars, dying, dead, closeCount, op, pc, cn, m, h,
                    err, ret, held, fcalls, closedAtCall, now, drainVars, raced >>

\* case <-s.dying: return, and the deferred close(s.dead)
LoopDying ==
    /\ loopPc = "select"
    /\ dying > 0
    /\ loopPc' = "exited"
    /\ dead' = TRUE
    /\ UNCHANGED << histVars, newVars, poolVars, dying, closeCount, op, pc, cn, m, h, err,
                    ret, held, fcalls, closedAtCall, now, drainVars, raced >>

\* time passes: time.Now() returns a later instant
ClockTick ==
    /\ now < MaxClock
    /\ now' = now + 1
    /\ UNCHANGED << histVars, newVars, poolVars, loopVars, closeCount, op, pc, cn, m, h,
                    err, ret, held, fcalls, closedAtCall, drainVars, raced >>

\* ------------------------------------------------------------------- Next
System(maxRes, maxMem) ==
    \/ NewCreate(maxRes)
    \/ NewFail
    \/ NewDone
    \/ LoopTick
    \/ reap
    \/ LoopDying
    \/ \E p \in Callers : GetCall(p)
    \/ \E p \in Callers : PopLoad(p)
    \/ \E p \in Callers : PopCAS(p)
    \/ \E p \in Callers : PopAdd(p)
    \/ \E p \in Callers : GetFactory(p, maxRes)
    \/ \E p \in Callers : \E r \in held[p] : PutCall(p, r, maxMem)
    \/ \E p \in Callers : PutLen(p)
    \/ \E p \in Callers : PutClosed(p)
    \/ \E p \in Callers : PutReject(p)
    \/ \E p \in Callers : PutLoad(p)
    \/ \E p \in Callers : PutCAS(p)
    \/ \E p \in Callers : PutAdd(p)
    \/ \E p \in Callers : CloseCall(p)
    \/ \E p \in Callers : CloseCAS(p)
    \/ \E p \in Callers : CloseDying(p)
    \/ \E p \in Callers : CloseWait(p)
    \/ \E p \in Callers : CloseConn(p)

Next == System(MaxRes, MaxMembers)
NextSeq == System(MaxResSeq, MaxMembersSeq)
NextReap == System(MaxRes, MaxMembers) \/ ClockTick

\* TestPool: six Get calls, each fatal on error; then six Put calls; the
\* deferred pool.Close() runs when the test function returns
TestGetFailed == op[1] = "Get" /\ pc[1] = "idle" /\ ret[1].err # 0
TestPutting == Len(next) > i
TestMayGet ==
    /\ ~TestGetFailed
    /\ ~TestPutting
    /\ Cardinality(held[1]) < TestGets
    /\ closed = 0
TestMayPut ==
    /\ ~TestGetFailed
    /\ TestPutting \/ Cardinality(held[1]) = TestGets
    /\ closed = 0
TestMayClose ==
    /\ TestGetFailed \/ (TestPutting /\ held[1] = {})
    /\ closed = 0

NextTest ==
    \/ NewCreate(TestGets)
    \/ NewFail
    \/ NewDone
    \/ LoopTick
    \/ reap
    \/ LoopDying
    \/ TestMayGet /\ GetCall(1)
    \/ PopLoad(1)
    \/ PopCAS(1)
    \/ PopAdd(1)
    \/ GetFactory(1, TestGets)
    \/ TestMayPut /\ \E r \in held[1] : PutCall(1, r, opt.InitialSize + TestGets)
    \/ PutLen(1)
    \/ PutClosed(1)
    \/ PutReject(1)
    \/ PutLoad(1)
    \/ PutCAS(1)
    \/ PutAdd(1)
    \/ TestMayClose /\ CloseCall(1)
    \/ CloseCAS(1)
    \/ CloseDying(1)
    \/ CloseWait(1)
    \/ CloseConn(1)

Spec == Init /\ [][Next]_vars
SpecSeq == InitSeq /\ [][NextSeq]_vars
SpecTest == InitTest /\ [][NextTest]_vars
SpecReap == InitReap /\ [][NextReap]_vars

\* the steps of a call in flight: a goroutine that is running Get, Put or
\* Close is scheduled again until the call returns or blocks on <-s.dead
Advance(p) ==
    \/ PopLoad(p)
    \/ PopCAS(p)
    \/ PopAdd(p)
    \/ GetFactory(p, MaxRes)
    \/ PutLen(p)
    \/ PutClosed(p)
    \/ PutReject(p)
    \/ PutLoad(p)
    \/ PutCAS(p)
    \/ PutAdd(p)
    \/ CloseCAS(p)
    \/ CloseDying(p)
    \/ CloseWait(p)
    \/ CloseConn(p)

\* Go's scheduler runs every runnable goroutine again (weak fairness of the
\* callers and of reap); a select with several ready cases picks one at
\* random, so the case <-s.dying, ready at every later select once dying is
\* closed, is taken at one of them (strong fairness of LoopDying)
SpecFair ==
    /\ InitFair
    /\ [][Next]_vars
    /\ \A p \in Procs : WF_vars(Advance(p))
    /\ WF_vars(reap)
    /\ SF_vars(LoopDying)

\* ----------------------------------------------------------------- claims
GetReturns(p) ==
    op[p] = "Get" /\ pc[p] \in { "pop_add", "get_factory" } /\ pc'[p] = "idle"
PutReturns(p) ==
    op[p] = "Put" /\ pc[p] \in { "put_add", "put_reject" } /\ pc'[p] = "idle"
CloseReturns(p) ==
    op[p] = "Close" /\ pc[p] \in { "close_cas", "pop_load" } /\ pc'[p] = "idle"

\* C1: with one caller, after n consecutive accepted Puts of P1..Pn (pushed)
\* and no pop in between, the k-th of the next n Get calls returns P(n-k+1)
\* with no error and without calling the factory.
C1_StackOrder ==
    [][\A p \in Callers :
          GetReturns(p) /\ gets < Len(pushed)
          => /\ ret'[p] = [val |-> pushed[Len(pushed) - gets], err |-> 0]
             /\ fcalls'[p] = 0]_vars

\* three Puts in an order that is not the order of creation, then three Gets
C1_Witness ==
    /\ Len(pushed) = 3
    /\ pushed[1] > pushed[2]
    /\ gets = 3
    /\ op[1] = "Get"
    /\ pc[1] = "idle"
    /\ ret[1] = [val |-> pushed[1], err |-> 0]

\* the pool of TestPool, with the caller between two calls
TestIdle == phase = "open" /\ pc[1] = "idle" /\ closed = 0
TestPutsDone == TestGets - Cardinality(held[1])
NumClosed == Cardinality({ r \in 1 .. Len(closeCount) : closeCount[r] > 0 })

\* C2: with one caller and the pool open, a Put that finds Len() < MaxCap
\* returns true and raises Len() by one; a Put that finds Len() >= MaxCap
\* returns false, closes its connection and leaves Len() unchanged.  For
\* InitialSize=3, MaxCap=5: Len() is 3 after New; after 6 Gets, the first 5
\* Puts return true and Len() is 5; the 6th returns false, its connection is
\* closed and Len() stays 5.
C2_Capacity ==
    /\ [](TestIdle /\ ~TestPutting /\ held[1] = {} /\ op[1] = "none" => PoolLen = 3)
    /\ [](TestIdle /\ TestPutting /\ TestPutsDone <= 5
            => ret[1].val = 1 /\ PoolLen = TestPutsDone /\ NumClosed = 0)
    /\ [](TestIdle /\ TestPutting /\ TestPutsDone = 6
            => ret[1].val = 0 /\ PoolLen = 5 /\ NumClosed = 1)
    /\ [][\A p \in Callers :
            PutReturns(p) /\ closed = 0
            => IF PoolLen < opt.MaxCap
               THEN /\ ret'[p].val = 1
                    /\ avail' = avail + 1
                    /\ closeCount' = closeCount
               ELSE /\ ret'[p].val = 0
                    /\ avail' = avail
                    /\ closeCount' = Bump(closeCount, cn[p])]_vars

\* TestPool has made its six Puts
C2_Witness ==
    /\ TestIdle
    /\ opt.InitialSize = 3
    /\ opt.MaxCap = 5
    /\ TestPutting
    /\ held[1] = {}
    /\ op[1] = "Put"
    /\ ret[1].val = 0
    /\ PoolLen = 5
    /\ NumClosed = 1

InFlight(p, o) == op[p] = o /\ pc[p] # "idle"
PutsInFlight == { p \in Callers : InFlight(p, "Put") }
Resources == 1 .. Len(closeCount)
Members == 1 .. Len(next)
AllHeld == UNION { held[p] : p \in Callers }

\* C3: Len() is never negative, in any reachable state.
C3_LenNonNegative == PoolLen >= 0

\* C4: Len() is at most MaxCap plus the number of Put calls in flight.
C4_LenBound == PoolLen <= opt.MaxCap + Cardinality(PutsInFlight)

\* C5: the pool calls Close() on a connection at most once, and Get never
\* returns a connection the pool has closed.
C5_ClosedOnce ==
    /\ [](\A r \in Resources : closeCount[r] <= 1)
    /\ [][\A p \in Callers :
            GetReturns(p) /\ ret'[p].val # 0 => closeCount'[ret'[p].val] = 0]_vars

\* one connection was closed by a rejecting Put, the other by the drain of Close
C5_Witness ==
    /\ NumClosed = 2
    /\ \E p, q \in Callers :
          /\ op[p] = "Put" /\ pc[p] = "idle" /\ ret[p].val = 0
          /\ op[q] = "Close" /\ pc[q] = "idle"

\* a member is linked from the successful CAS of its Put on
Linked(k) == ~\E p \in Callers : m[p] = k /\ pc[p] \in { "put_load", "put_cas" }

\* C6: a member linked by Put is taken by at most one pop and, until a pop
\* takes it, is reachable from head, also when its push raced with a pop that
\* read an empty head; a successful CAS of Put adds its member on top and
\* leaves the rest of the chain alone, a successful CAS of pop removes the
\* top member only.
C6_NoLostUpdate ==
    /\ [](\A k \in Members :
            /\ popped[k] <= 1
            /\ Linked(k) /\ popped[k] = 0 => k \in SeqSet(Chain))
    /\ [][\A p \in Callers :
            /\ pc[p] = "put_cas" /\ pc'[p] = "put_add" => Chain' = << m[p] >> \o Chain
            /\ pc[p] = "pop_cas" /\ pc'[p] = "pop_add"
               => Chain # << >> /\ h[p] = Head(Chain) /\ Chain' = Tail(Chain)]_vars

\* a Get read an empty head, then a Put linked its member; the member is there
C6_Witness ==
    \E p, q \in Callers :
        /\ InFlight(p, "Get") /\ pc[p] = "get_factory"
        /\ InFlight(q, "Put") /\ pc[q] = "put_add"
        /\ Chain = << m[q] >>

\* C7: once Close has returned and no Put is in flight (nor a Get, whose pop
\* could still owe its decrement of avail), head is nil, Len() is 0 and every
\* connection that no caller holds has been closed exactly once.
C7_CloseDrains ==
    (/\ closed = 1
     /\ \A p \in Callers : pc[p] = "idle")
    => /\ head = 0
       /\ PoolLen = 0
       /\ \A r \in Resources \ AllHeld : closeCount[r] = 1

\* C8: the closed flag never goes back to 0, the reaper is signalled at most
\* once, and a Close call that finds the flag set returns nil and leaves
\* head, avail, the flag, the dying signal and every connection alone.
C8_CloseIdempotent ==
    /\ [](dying <= 1)
    /\ [][/\ closed = 1 => closed' = 1
          /\ \A p \in Callers :
                InFlight(p, "Close") /\ closedAtCall[p] = 1 /\ pc'[p] # pc[p]
                => /\ pc'[p] = "idle"
                   /\ ret'[p] = NoRet
                   /\ UNCHANGED << head, avail, closed, dying, closeCount >>]_vars

\* a Close called on a closed pool has returned; the first one had drained
C8_Witness ==
    \E p, q \in Callers :
        /\ op[p] = "Close" /\ pc[p] = "idle" /\ closedAtCall[p] = 0
        /\ op[q] = "Close" /\ pc[q] = "idle" /\ closedAtCall[q] = 1
        /\ NumClosed > 0

\* C9: a Put called when the closed flag is set returns false, closes its
\* connection and changes neither head nor avail.
C9_PutOnClosed ==
    [][\A p \in Callers :
          InFlight(p, "Put") /\ closedAtCall[p] = 1 /\ pc'[p] # pc[p]
          => /\ UNCHANGED << head, avail >>
             /\ pc'[p] \in { "put_closed", "put_reject", "idle" }
             /\ pc'[p] = "idle"
                => ret'[p].val = 0 /\ closeCount' = Bump(closeCount, cn[p])]_vars

\* a Put called on a closed pool with room (Len() < MaxCap) has returned false
C9_Witness ==
    \E p \in Callers :
        /\ op[p] = "Put" /\ pc[p] = "idle" /\ closedAtCall[p] = 1
        /\ ret[p].val = 0
        /\ PoolLen < opt.MaxCap
        /\ NumClosed > 0

\* C10: a Get whose pop found head empty calls the factory once and returns
\* its connection, or its error with head, avail and closed unchanged; a Get
\* whose pop took a member returns that member's connection, no error, and
\* does not call the factory.
C10_GetMiss ==
    /\ [](\A p \in Callers : pc[p] = "get_factory" => fcalls[p] = 0)
    /\ [][\A p \in Callers :
            /\ InFlight(p, "Get") /\ pc[p] = "pop_load" /\ pc'[p] # pc[p]
               => pc'[p] = (IF head = 0 THEN "get_factory" ELSE "pop_cas")
            /\ GetReturns(p) /\ pc[p] = "get_factory"
               => /\ fcalls'[p] = 1
                  /\ UNCHANGED << head, avail, closed >>
                  /\ \/ /\ Len(closeCount') = Len(closeCount) + 1
                        /\ ret'[p] = [val |-> Len(closeCount'), err |-> 0]
                        /\ held'[p] = held[p] \cup { Len(closeCount') }
                     \/ /\ closeCount' = closeCount
                        /\ ret'[p] = [val |-> 0, err |-> ErrDial]
                        /\ held'[p] = held[p]
            /\ GetReturns(p) /\ pc[p] = "pop_add"
               => /\ fcalls'[p] = 0
                  /\ closeCount' = closeCount
                  /\ ret'[p] = [val |-> conn[h[p]], err |-> 0]
                  /\ held'[p] = held[p] \cup { conn[h[p]] }]_vars

\* after a miss, more connections are checked out than MaxCap
C10_Witness ==
    \E p \in Callers :
        /\ op[p] = "Get" /\ pc[p] = "idle"
        /\ fcalls[p] = 1
        /\ ret[p].err = 0
        /\ Cardinality(AllHeld) > opt.MaxCap

\* C11: when the k-th factory call of New fails (k = i + 1 <= InitialSize),
\* New returns the factory's error and no pool, calls the factory no more,
\* has closed each of the k-1 connections made before exactly once and has
\* not started the reaper loop; when no call fails, the factory was called
\* InitialSize times and Len() is InitialSize when New returns.
C11_WarmUp ==
    /\ [](phase = "new" => Len(closeCount) = i /\ newErr = 0 /\ loopPc = "none")
    /\ [](phase = "failed"
            => /\ newErr = ErrDial
               /\ i < opt.InitialSize
               /\ Len(closeCount) = i
               /\ \A r \in Resources : closeCount[r] = 1
               /\ head = 0
               /\ loopPc = "none"
               /\ \A p \in Callers : pc[p] = "idle" /\ op[p] = "none")
    /\ [][/\ phase # "failed"
          /\ phase = "new" /\ phase' = "failed"
             => \A r \in Resources : closeCount[r] = 0 /\ closeCount'[r] = 1
          /\ phase = "new" /\ phase' = "open"
             => /\ i = opt.InitialSize
                /\ Len(closeCount') = opt.InitialSize
                /\ PoolLen' = opt.InitialSize
                /\ newErr' = 0
                /\ \A r \in Resources : closeCount'[r] = 0]_vars

\* the third of three factory calls failed: the two connections are closed
C11_Witness ==
    /\ phase = "failed"
    /\ opt.InitialSize = 3
    /\ i = 2
    /\ closeCount = << 1, 1 >>
    /\ newErr = ErrDial

\* the members of the free-list idle for longer than IdleTimeout
Stale == { k \in SeqSet(Chain) : now - lastAccess[k] > opt.IdleTimeout }

\* C12: with IdleTimeout > 0, a reap tick removes from the free-list and
\* closes every member whose lastAccess is older than IdleTimeout, Len()
\* dropping by their number, and leaves every other member in the free-list
\* with its connection not closed.
C12_Reap ==
    [][loopPc = "reap" /\ loopPc' = "select" /\ opt.IdleTimeout > 0
       => /\ \A k \in Stale :
                /\ k \notin SeqSet(Chain')
                /\ closeCount'[conn[k]] = closeCount[conn[k]] + 1
          /\ PoolLen' = PoolLen - Cardinality(Stale)
          /\ \A k \in SeqSet(Chain) \ Stale :
                /\ k \in SeqSet(Chain')
                /\ closeCount'[conn[k]] = closeCount[conn[k]]]_vars

\* the positions of Pool.close, the drain run by Close
Draining(p) ==
    op[p] = "Close" /\ pc[p] \in { "pop_load", "pop_cas", "pop_add", "close_conn" }

\* C13: only the Close call that won the transition of the closed flag closes
\* dying, and it does so exactly once; its drain starts only after the loop
\* has exited and closed dead; dead is closed exactly once, by the exiting
\* loop after dying was closed, and no tick or reap runs once dead is closed.
C13_Handshake ==
    /\ [](dying <= 1)
    /\ [](closed = 1 => dying = 1 \/ \E p \in Callers : pc[p] = "close_dying")
    /\ [](dead => dying = 1 /\ loopPc = "exited")
    /\ [](\A p \in Callers : Draining(p) => dead /\ dying = 1)
    /\ [][/\ dying' # dying
             => /\ dying = 0 /\ dying' = 1 /\ closed = 1
                /\ \E p \in Callers :
                      /\ op[p] = "Close" /\ closedAtCall[p] = 0
                      /\ pc[p] = "close_dying" /\ pc'[p] = "close_wait"
          /\ \A p \in Callers :
                pc[p] = "close_wait" /\ pc'[p] # pc[p] => dead /\ pc'[p] = "pop_load"
          /\ dead' # dead
             => /\ ~dead /\ dying = 1
                /\ loopPc = "select" /\ loopPc' = "exited"
          /\ dead => dead' /\ loopPc' = "exited"
          /\ loopPc' = "reap" => ~dead /\ ~dead']_vars

\* the loop has exited on dying and closed dead; the winning Close is closing
\* a connection it drained
C13_Witness ==
    \E p \in Callers :
        /\ Draining(p) /\ pc[p] = "close_conn"
        /\ dead /\ dying = 1 /\ loopPc = "exited"

\* C14: under fair scheduling of the loop and of the callers, every Close
\* call in flight on a pool returned by New returns, whatever Get and Put
\* calls, ticks and other Close calls run beside it.
C14_CloseTerminates ==
    \A p \in Procs : InFlight(p, "Close") ~> (op[p] = "Close" /\ pc[p] = "idle")

\* the winning Close has drained and returned while a Put was in flight
C14_Witness ==
    \E p, q \in Callers :
        /\ op[p] = "Close" /\ pc[p] = "idle" /\ closedAtCall[p] = 0
        /\ dead /\ NumClosed > 0
        /\ InFlight(q, "Put") /\ closedAtCall[q] = 0

\* the error of the last failing close of a drain, 0 when none failed
RECURSIVE LastErr(_)
LastErr(s) ==
    IF s = << >> THEN 0
    ELSE IF s[Len(s)].err # 0 THEN s[Len(s)].err
    ELSE LastErr(SubSeq(s, 1, Len(s) - 1))

DrainedConns == [k \in 1 .. Len(drained) |-> drained[k].conn]
FailedCloses == { k \in 1 .. Len(drained) : drained[k].err # 0 }

\* C15: with one caller, the Close that drains calls Close() once on every
\* connection that was in the free-list, top of the stack first, going on
\* after a close that failed, and returns the error of the last close that
\* failed, or nil when none did.
C15_CloseError ==
    /\ [](\A p \in Callers : Draining(p) => err[p] = LastErr(drained))
    /\ [][\A p \in Callers :
            pc[p] = "close_conn" /\ pc'[p] # pc[p]
            => pc'[p] = "pop_load" /\ closeCount' = Bump(closeCount, cn[p])]_vars
    /\ [][\A p \in Callers :
            CloseReturns(p) /\ pc[p] = "pop_load"
            => /\ head = 0
               /\ DrainedConns = drainFrom
               /\ \A r \in SeqSet(drainFrom) : closeCount[r] = 1
               /\ ret'[p] = [val |-> 0, err |-> LastErr(drained)]]_vars

\* three connections were drained: the closes of the first two failed, the
\* third did not, and Close returned the error of the second
C15_Witness ==
    /\ op[1] = "Close" /\ pc[1] = "idle"
    /\ Len(drainFrom) = 3
    /\ FailedCloses = { 1, 2 }
    /\ ret[1].err = drained[2].err
    /\ ret[1].err # drained[1].err

\* no call is in flight
Quiescent == \A p \in Callers : pc[p] = "idle"

\* C16: the next links from head form a finite chain without a cycle that
\* ends in nil and holds no member twice; and when no call is in flight the
\* number of members reachable from head is avail.
C16_FreeList ==
    /\ Len(Chain) <= Len(next)
    /\ Cardinality(SeqSet(Chain)) = Len(Chain)
    /\ Chain # << >> => next[Chain[Len(Chain)]] = 0
    /\ \A k \in SeqSet(Chain) : k \in Members /\ popped[k] = 0
    /\ Quiescent => Len(Chain) = avail

\* two callers have pushed concurrently and returned: two members, avail 2
C16_Witness ==
    /\ Quiescent
    /\ \A p \in Callers : op[p] = "Put" /\ ret[p].val = 1
    /\ Len(Chain) = 2
    /\ avail = 2
    /\ opt.MaxCap = 1

\* the calls between their successful CAS on head and their update of avail
PutsOwing == { p \in Callers : pc[p] = "put_add" }
PopsOwing == { p \in Callers : pc[p] = "pop_add" }

\* C18: in every reachable state the number of members reachable from head
\* is avail, plus the Puts that pushed and have not yet incremented avail,
\* minus the pops that took a member and have not yet decremented it.
C18_Accounting ==
    Len(Chain) = avail + Cardinality(PutsOwing) - Cardinality(PopsOwing)

\* a pop has decremented avail for a member whose Put has not yet counted it:
\* avail is negative with an empty chain
C18_Witness ==
    /\ avail < 0
    /\ Chain = << >>
    /\ Cardinality(PutsOwing) = 1
    /\ PopsOwing = {}

\* the compare-and-swap of p on head fails in this step
CASFails(p) ==
    \/ pc[p] = "pop_cas" /\ pc'[p] = "pop_load"
    \/ pc[p] = "put_cas" /\ pc'[p] = "put_load"

\* the compare-and-swap of p on head succeeds in this step
CASSucceeds(p) ==
    \/ pc[p] = "pop_cas" /\ pc'[p] = "pop_add"
    \/ pc[p] = "put_cas" /\ pc'[p] = "put_add"

\* C17: a CAS on head in Put or pop fails only if a CAS of another call on
\* head succeeded after the failing call read head; a call that has read head
\* and sees it change was overtaken by a successful CAS of another call, so
\* some call of those in the retry loops is completing; and under fair
\* scheduling, with finitely many members to push and pop, every Get and
\* every Put in flight returns.
C17_LockFree ==
    /\ [][\A p \in Callers :
            /\ CASFails(p) => raced[p]
            /\ pc[p] \in { "pop_cas", "put_cas" } /\ head' # head /\ ~CASSucceeds(p)
               => \E q \in Callers \ { p } : CASSucceeds(q)]_vars
    /\ \A p \in Procs : InFlight(p, "Get") \/ InFlight(p, "Put") ~> pc[p] = "idle"

\* the CAS of a Put failed because a pop took the member the Put had read as
\* head; the Put is back at its load and the pop is completing
C17_Witness ==
    \E p, q \in Callers :
        /\ InFlight(p, "Put") /\ pc[p] = "put_load"
        /\ next[m[p]] # 0 /\ next[m[p]] # head
        /\ popped[next[m[p]]] = 1
        /\ pc[q] = "pop_add" /\ h[q] = next[m[p]]

\* the Close calls past the transition of the closed flag and not yet returned
ClosesWinning ==
    { q \in Callers : op[q] = "Close" /\ (pc[q] \in { "close_dying", "close_wait" } \/ Draining(q)) }

\* the drain of Close has run and ended
DrainFinished == closed = 1 /\ dead /\ ClosesWinning = {}

\* C19: of the Close calls running concurrently exactly one closes dying and
\* drains, and every Close call, also one that lost the transition of the
\* closed flag, returns only once the drain has finished.
C19_ConcurrentClose ==
    /\ [](Cardinality(ClosesWinning) <= 1 /\ dying <= 1)
    /\ [][\A p \in Callers : CloseReturns(p) => DrainFinished']_vars

\* the member below k in the chain from head, 0 for the last one
Below(k) ==
    LET j == CHOOSE x \in 1 .. Len(Chain) : Chain[x] = k
    IN  IF j < Len(Chain) THEN Chain[j + 1] ELSE 0

\* C20: the member a Put links is new (it was never linked nor popped), so a
\* member that was popped never becomes head again; the next link of a
\* linked member is not written while the member is in the free-list or a
\* pop that read it as head has still to make its CAS; and when the CAS of
\* pop succeeds, the head it installs is the member directly below the one
\* it takes, also when other calls changed head between its read and its CAS.
C20_NoABA ==
    /\ [](head # 0 => popped[head] = 0)
    /\ [][/\ head' # head /\ head' # 0 => popped'[head'] = 0
          /\ \A p \in Callers :
                pc[p] = "put_cas" /\ pc'[p] = "put_add"
                => /\ popped[m[p]] = 0
                   /\ m[p] \notin SeqSet(Chain)
                   /\ \A q \in Callers : h[q] # m[p]
          /\ \A k \in Members :
                /\ Linked(k)
                /\ popped'[k] = 0 \/ \E q \in Callers : h[q] = k /\ pc[q] = "pop_cas" /\ pc'[q] = pc[q]
                => next'[k] = next[k]
          /\ \A p \in Callers :
                pc[p] = "pop_cas" /\ pc'[p] = "pop_add"
                => /\ h[p] \in SeqSet(Chain)
                   /\ head' = Below(h[p])
                   /\ Chain' = Tail(Chain)]_vars

\* the CAS of a pop succeeded although other calls had pushed and popped
\* between its read of head and its CAS
C20_Witness ==
    \E p \in Callers :
        /\ pc[p] = "pop_add"
        /\ raced[p]
        /\ popped[h[p]] = 1

TypeOK ==
    /\ phase \in { "new", "open", "failed" }
    /\ head \in 0 .. Len(next)
    /\ closed \in { 0, 1 }
    /\ Len(conn) = Len(next)

====
